---------------------------- MODULE Spec2Model ----------------------------
(***************************************************************************)
(* Model of the mail-merge engine of app.py: the Streamlit script that     *)
(* stashes the uploaded recipient table in st.session_state when "Send" is *)
(* pressed, re-runs in sending mode, walks the table row by row calling    *)
(* the Gmail API, writes the updated CSV and the run summary, and offers   *)
(* "New Run / Reset".                                                      *)
(*                                                                         *)
(* st.session_state is per browser session, so every piece of state the    *)
(* script keeps is a function of the session.  Strings are sequences of    *)
(* one-character strings so that the code's string operations (regex       *)
(* search, strip, lower) are computed and not assumed.                     *)
(***************************************************************************)
EXTENDS Integers, Sequences, FiniteSets, TLC

(***************************************************************************)
(* Bounds of the model.                                                    *)
(***************************************************************************)
MaxRows == 2
MaxRuns == 2
MaxInterrupts == 1

(***************************************************************************)
(* Program constants.                                                      *)
(***************************************************************************)
FetchAttempts == 6
DelayMin == 20

(***************************************************************************)
(* Strings and cells.                                                      *)
(***************************************************************************)
WordChars == {"a", "b", "x", "n", "N", "o", "e", "t", "r", "m", "1", "2", "3"}
AddrChars == WordChars \cup {".", "-"}

Max(S) == CHOOSE x \in S : \A y \in S : y <= x
Min(S) == CHOOSE x \in S : \A y \in S : x <= y

\* A pandas cell: Python None, a missing value (float nan) or a string.
None == [k |-> "none", v |-> <<>>]
NaN == [k |-> "nan", v |-> <<>>]
Str(s) == [k |-> "str", v |-> s]

\* str(x)
PyStr(c) ==
    CASE c.k = "none" -> <<"N", "o", "n", "e">>
      [] c.k = "nan" -> <<"n", "a", "n">>
      [] OTHER -> c.v

\* bool(x): None and "" are false, float nan is true
Truthy(c) == c.k = "nan" \/ (c.k = "str" /\ c.v # <<>>)

\* x or y
PyOr(a, b) == IF Truthy(a) THEN a ELSE b

\* s.strip()
Strip(s) ==
    LET keep == {i \in 1..Len(s) : s[i] # " "}
    IN  IF keep = {} THEN <<>> ELSE SubSeq(s, Min(keep), Max(keep))

\* s.lower()
Lower(s) == [i \in 1..Len(s) |-> IF s[i] = "N" THEN "n" ELSE s[i]]

\* The last index of the longest run of characters of Cls that starts at i
\* (i - 1 when s[i] is not in Cls): what a greedy [..]+ consumes.
RunEnd(s, i, Cls) ==
    LET ks == {k \in i..Len(s) : \A m \in i..k : s[m] \in Cls}
    IN  IF ks = {} THEN i - 1 ELSE Max(ks)

\* EMAIL_REGEX matched at position i: the end of the match, or 0.
\* [\w\.-]+ @ [\w\.-]+ \. \w+ with greedy quantifiers and backtracking.
MatchAt(s, i) ==
    LET e1 == RunEnd(s, i, AddrChars)
        j0 == e1 + 2
        e2 == RunEnd(s, j0, AddrChars)
        dots == {q \in (j0 + 1)..(e2 - 1) : s[q] = "." /\ s[q + 1] \in WordChars}
    IN  IF e1 < i \/ e1 + 1 > Len(s) THEN 0
        ELSE IF s[e1 + 1] # "@" THEN 0
        ELSE IF dots = {} THEN 0
        ELSE RunEnd(s, Max(dots) + 1, WordChars)

\* extract_email with a pattern that asks for no dot after the "@"
extract_email_no_dot(value) ==
    LET ats == {i \in 2..(Len(value) - 1) :
                  value[i] = "@" /\ value[i - 1] \in AddrChars /\ value[i + 1] \in AddrChars}
    IN  IF ats = {} THEN <<>> ELSE value

\* extract_email: the leftmost match of EMAIL_REGEX, <<>> for None.
extract_email(value) ==
    LET starts == {i \in 1..Len(value) : MatchAt(value, i) # 0}
    IN  IF value = <<>> \/ starts = {} THEN <<>>
        ELSE SubSeq(value, Min(starts), MatchAt(value, Min(starts)))


(***************************************************************************)
(* The recipient table (a pandas DataFrame).  A row holds one cell per     *)
(* possible column; cols says which columns the frame has.  Status is an   *)
(* uploaded column like any other: [st, age] with age in hours.            *)
(***************************************************************************)
S_a == <<"a", "@", "a", ".", "a">>
S_b == <<"x", " ", "b", "@", "a", ".", "a">>
S_bad == <<"n", "o", "@", "a">>
S_t1 == <<"t", "1">>
S_r1 == <<"r", "1">>

StPending == [st |-> "Pending", age |-> 0]
StSent == [st |-> "Sent", age |-> 0]
StInProgress(h) == [st |-> "InProgress", age |-> h]

MkRow(e, t, r, st) == [Email |-> e, ThreadId |-> t, RfcMessageId |-> r, Status |-> st]

RowValues ==
    { MkRow(Str(S_a), NaN, NaN, StPending),
      MkRow(Str(S_bad), NaN, NaN, StInProgress(25)),
      MkRow(Str(S_b), Str(S_t1), Str(S_r1), StSent),
      MkRow(Str(S_a), Str(S_t1), Str(<<" ">>), StInProgress(1)) }

BaseCols == {"Email", "Name", "Status"}
TrackCols == {"ThreadId", "RfcMessageId"}

SeqsUpTo(S, n) == UNION {[1..k -> S] : k \in 0..n}

\* The files the user can upload: every table of at most MaxRows rows, and
\* tables without tracking columns (a first upload).
Tables ==
    {[cols |-> BaseCols \cup TrackCols, rows |-> rs] : rs \in SeqsUpTo(RowValues, MaxRows)}
    \cup {[cols |-> BaseCols, rows |-> [i \in DOMAIN rs |-> [rs[i] EXCEPT !.ThreadId = None, !.RfcMessageId = None]]] :
            rs \in SeqsUpTo({MkRow(Str(S_a), NaN, NaN, StPending)}, MaxRows) \ {<<>>}}

NoTable == [cols |-> {}, rows |-> <<>>]

\* row.get(col, default)
Get(df, row, col, default) == IF col \in df.cols THEN row[col] ELSE default

\* lines 333-336: the tracking columns are created, filled with None
EnsureColumns(df) ==
    [cols |-> df.cols \cup TrackCols,
     rows |-> [i \in DOMAIN df.rows |->
                 [df.rows[i] EXCEPT
                    !.ThreadId = IF "ThreadId" \in df.cols THEN @ ELSE None,
                    !.RfcMessageId = IF "RfcMessageId" \in df.cols THEN @ ELSE None]]]

(***************************************************************************)
(* Options of a run.  A template is the set of fields it refers to:        *)
(* str.format on the row raises KeyError when one is not a column.         *)
(***************************************************************************)
ModeNew == "New Email"
ModeFollowUp == "Follow-up (Reply)"
ModeDraft == "Save as Draft"
Modes == {ModeNew, ModeFollowUp, ModeDraft}
Templates == {{"Name"}, {"Name", "Company"}}
\* What the user can choose when pressing Send: every mode with a template
\* the table can fill, and a template that names a column the table lacks.
RunConfigs == ({{"Name"}} \X Modes) \cup {<<{"Name", "Company"}, ModeNew>>}
DefaultLabel == "Mail Merge Sent"

MkOpts(tpl, mode) ==
    [subject_template |-> tpl, body_template |-> tpl, label_name |-> DefaultLabel,
     delay |-> DelayMin, send_mode |-> mode]
NoOpts == MkOpts({}, "")
\* the defaults of st.session_state.get(...) at lines 313-318
DefaultOpts == MkOpts({"Name"}, ModeNew)

NoSummary == [sent_count |-> 0, skipped |-> <<>>, errors |-> <<>>, file_path |-> 0]

Sessions == {"s1", "s2"}
\* a reset that leaves the summary of the finished run in place
RunKeysWithoutSummary == {"df", "opts", "last_saved_csv"}
\* line 494, keys_to_clear: the stashed table, the options (templates, label
\* name, delay, mode), the summary and the saved file (path and name)
RunKeys == {"df", "opts", "summary", "last_saved_csv"}


(***************************************************************************)
(* State.                                                                  *)
(*   ss[s]       st.session_state of session s: keys says which keys       *)
(*               exist, the other fields hold their values                 *)
(*   script[s]   the script run of session s: where it is (pc) and the     *)
(*               locals of the sending block; outcome (what became of      *)
(*               each row), trace (the send, draft and label calls and     *)
(*               the pacing sleeps, in order) and gets (the number of      *)
(*               messages().get calls of the latest fetch) record what     *)
(*               the run did                                               *)
(*   uploaded[s] the file held by the st.file_uploader widget              *)
(*   hist[s]     what happened so far: the number of Send presses, of      *)
(*               entries into the sending block (inv) and of               *)
(*               interruptions, and the rows that reached Sent, Draft or   *)
(*               Skipped in an earlier invocation over the uploaded table  *)
(*   tmp         the CSV files written under /tmp: the timestamp in the    *)
(*               name, who wrote it, and how many rows of the table it     *)
(*               holds had been processed when it was written              *)
(*   clock       datetime.now(), in ticks                                  *)
(***************************************************************************)
VARIABLES ss, script, uploaded, hist, tmp, clock

vars == <<ss, script, uploaded, hist, tmp, clock>>

NoScript(pc) ==
    [pc |-> pc, idx |-> 0, label_id |-> <<>>, sent_count |-> 0, skipped |-> <<>>,
     errors |-> <<>>, outcome |-> <<>>, trace |-> <<>>, gets |-> 0]

NoUpload == [present |-> FALSE, table |-> NoTable]

EmptySessionState ==
    [keys |-> {}, sending |-> FALSE, done |-> FALSE, last_saved_csv |-> 0,
     send_progress |-> [total |-> 0, sent |-> 0],
     df |-> NoTable, opts |-> NoOpts, summary |-> NoSummary]

\* lines 175-184: the keys the script creates when they are missing
InitSessionState(st) ==
    [st EXCEPT
       !.keys = @ \cup {"sending", "done", "last_saved_csv", "send_progress"},
       !.sending = IF "sending" \in st.keys THEN @ ELSE FALSE,
       !.done = IF "done" \in st.keys THEN @ ELSE FALSE,
       !.last_saved_csv = IF "last_saved_csv" \in st.keys THEN @ ELSE 0,
       !.send_progress = IF "send_progress" \in st.keys THEN @ ELSE [total |-> 0, sent |-> 0]]

Terminal == {"Sent", "Draft", "Skipped"}

\* the number of rows of a run whose outcome is decided
RowsDone(loc) == Cardinality({i \in DOMAIN loc.outcome : loc.outcome[i] # "Pending"})

\* the rows of a run that reached a terminal outcome
TerminalRows(loc) == {i \in DOMAIN loc.outcome : loc.outcome[i] \in Terminal}

(***************************************************************************)
(* The provider (Gmail).  Ids are made from the row's position.            *)
(***************************************************************************)
Digit(i) == CASE i = 1 -> "1" [] i = 2 -> "2" [] OTHER -> "3"
LabelId == <<"L", "1">>
NoBody == [threadId |-> <<>>, reply |-> <<>>]
\* A call or a sleep of the trace: the row it is for (0: none), the thread
\* and reply headers of the request, and how the call ended.
Event(op, row, body, result) ==
    [op |-> op, row |-> row, threadId |-> body.threadId, reply |-> body.reply,
     result |-> result]

\* messages().send: {id, threadId}; a message sent into a thread stays in it
SendResponse(i, body) ==
    [id |-> <<"m", Digit(i)>>,
     threadId |-> IF body.threadId # <<>> THEN body.threadId ELSE <<"t", "t", Digit(i)>>]

\* drafts().create: {message: {id, threadId}}
DraftResponse(i) == [id |-> <<"m", Digit(i)>>, threadId |-> <<"t", "t", Digit(i)>>]

\* the Message-ID header of message i
MessageIdHeader(i) == <<"r", "r", Digit(i)>>

\* What the messages().get calls of one fetch answer: the header from the
\* third attempt on or never, before that an exception or a reply without
\* the header.
FetchOutcomes ==
    {[a \in 1..(FetchAttempts + 1) |->
        IF a >= k THEN "hdr" ELSE IF a % 2 = 1 THEN "exc" ELSE "nohdr"] :
     k \in {3, FetchAttempts + 2}}

Oracles == [send : {"ok", "fail"}, fetch : FetchOutcomes, modify : {"ok", "fail"}]

\* a fetch that tries once more than FetchAttempts times
RECURSIVE fetch_one_more_attempt(_, _, _)
fetch_one_more_attempt(outs, i, a) ==
    IF a > FetchAttempts + 1 THEN [gets |-> FetchAttempts + 1, header |-> <<>>]
    ELSE IF outs[a] = "hdr" THEN [gets |-> a, header |-> MessageIdHeader(i)]
    ELSE fetch_one_more_attempt(outs, i, a + 1)

\* fetch_message_id_header: the header and the number of get calls made
RECURSIVE fetch_message_id_header(_, _, _)
fetch_message_id_header(outs, i, a) ==
    IF a > FetchAttempts THEN [gets |-> FetchAttempts, header |-> <<>>]
    ELSE IF outs[a] = "hdr" THEN [gets |-> a, header |-> MessageIdHeader(i)]
    ELSE fetch_message_id_header(outs, i, a + 1)

(***************************************************************************)
(* One iteration of the sending loop, lines 342-428.                       *)
(***************************************************************************)
\* line 351
to_addr_of(df, row) == extract_email(Strip(PyStr(Get(df, row, "Email", Str(<<>>)))))

\* format that leaves an unknown field as it is
RenderNeverFails(opts, df) == FALSE

\* lines 357-358: format raises KeyError for a field that is no column
RenderFails(opts, df) ==
    \E f \in opts.subject_template \cup opts.body_template : f \notin df.cols

\* lines 366-367
CellText(df, row, col) == Strip(PyStr(PyOr(Get(df, row, col, Str(<<>>)), Str(<<>>))))

IsNan(s) == Lower(s) = <<"n", "a", "n">>

\* line 368
HasLinkage(df, row) ==
    LET thread_id == CellText(df, row, "ThreadId")
        rfc_id == CellText(df, row, "RfcMessageId")
    IN  thread_id # <<>> /\ ~IsNan(thread_id) /\ rfc_id # <<>> /\ ~IsNan(rfc_id)

\* a follow-up that joins the thread but sets no reply headers
MsgBodyThreadOnly(mode, df, row) ==
    IF mode = ModeFollowUp /\ HasLinkage(df, row)
    THEN [threadId |-> CellText(df, row, "ThreadId"), reply |-> <<>>]
    ELSE NoBody

\* lines 364-379: the thread and the reply headers of the request
MsgBody(mode, df, row) ==
    IF mode = ModeFollowUp /\ HasLinkage(df, row)
    THEN [threadId |-> CellText(df, row, "ThreadId"), reply |-> CellText(df, row, "RfcMessageId")]
    ELSE NoBody

\* the exception of a row leaves the loop
OnRowErrorAbort(loc, i, addr, msg) == [loc EXCEPT !.pc = "stopped", !.outcome[i] = "Error"]

\* lines 426-428: except Exception
OnRowError(loc, i, addr, msg) ==
    [loc EXCEPT !.errors = Append(@, [addr |-> addr, error |-> msg]),
                !.outcome[i] = "Error"]

\* a skip that leaves no entry in the skipped list
OnNoAddressUnrecorded(loc, i, cell) == [loc EXCEPT !.outcome[i] = "Skipped"]

\* lines 352-354
OnNoAddress(loc, i, cell) ==
    [loc EXCEPT !.skipped = Append(@, cell), !.outcome[i] = "Skipped"]

\* a pacing sleep that does not look at the mode
PacingInEveryMode(opts, i) ==
    IF opts.delay > 0 THEN <<Event("sleep", i, NoBody, "ok")>> ELSE <<>>

\* lines 422-424
Pacing(opts, i) ==
    IF opts.delay > 0 /\ opts.send_mode # ModeDraft
    THEN <<Event("sleep", i, NoBody, "ok")>> ELSE <<>>

\* lines 382-391
DraftRow(loc, df, opts, i, body, o) ==
    IF o.send = "fail"
    THEN [loc |-> OnRowError([loc EXCEPT !.trace = Append(@, Event("draft", i, body, "fail"))],
                             i, to_addr_of(df, df.rows[i]), "HttpError"),
          df |-> df]
    ELSE LET draft_msg == DraftResponse(i)
         IN  [loc |-> [loc EXCEPT !.trace = Append(@, Event("draft", i, body, "ok")) \o Pacing(opts, i),
                                  !.sent_count = @ + 1,
                                  !.outcome[i] = "Draft"],
              df |-> [df EXCEPT !.rows[i].ThreadId = Str(draft_msg.threadId),
                                !.rows[i].RfcMessageId = PyOr(Str(draft_msg.id), Str(<<>>))]]

\* a failed label call takes the row to the except branch of line 426
OnLabelErrorRaise(r, i, addr) == [r EXCEPT !.loc = OnRowError(@, i, addr, "HttpError")]

\* lines 416-417: the except around messages().modify shows a warning
OnLabelError(r, i, addr) == r

\* lines 393-417
SendRow(loc, df, opts, i, body, o) ==
    IF o.send = "fail"
    THEN [loc |-> OnRowError([loc EXCEPT !.trace = Append(@, Event("send", i, body, "fail"))],
                             i, to_addr_of(df, df.rows[i]), "HttpError"),
          df |-> df]
    ELSE LET sent_msg == SendResponse(i, body)
             f == IF sent_msg.id # <<>>
                  THEN fetch_message_id_header(o.fetch, i, 1)
                  ELSE [gets |-> 0, header |-> <<>>]
             label == IF opts.send_mode = ModeNew /\ loc.label_id # <<>> /\ sent_msg.id # <<>>
                      THEN <<Event("modify", i, NoBody, o.modify)>> ELSE <<>>
             r == [loc |-> [loc EXCEPT !.trace = Append(@, Event("send", i, body, "ok")) \o label
                                                  \o Pacing(opts, i),
                                      !.gets = f.gets,
                                      !.sent_count = @ + 1,
                                      !.outcome[i] = "Sent"],
                   df |-> [df EXCEPT !.rows[i].ThreadId = PyOr(Str(sent_msg.threadId), @),
                                     !.rows[i].RfcMessageId =
                                         PyOr(PyOr(Str(f.header), Str(sent_msg.id)), Str(<<>>))]]
         IN  IF label # <<>> /\ o.modify = "fail"
             THEN OnLabelError(r, i, to_addr_of(df, df.rows[i]))
             ELSE r

\* lines 356-428: the try block
TryRow(loc, df, opts, i, o) ==
    IF RenderFails(opts, df)
    THEN [loc |-> OnRowError(loc, i, to_addr_of(df, df.rows[i]), "KeyError"), df |-> df]
    ELSE IF opts.send_mode = ModeDraft
         THEN DraftRow(loc, df, opts, i, MsgBody(opts.send_mode, df, df.rows[i]), o)
         ELSE SendRow(loc, df, opts, i, MsgBody(opts.send_mode, df, df.rows[i]), o)

\* the call for row i is issued and the loop does not wait for it
RowStepNoWait(loc, df, opts, i, o) ==
    [loc |-> [loc EXCEPT !.trace = Append(@, Event("send", i, NoBody, "ok"))], df |-> df]

\* lines 342-428: row i
RowStep(loc, df, opts, i, o) ==
    IF to_addr_of(df, df.rows[i]) = <<>>
    THEN [loc |-> OnNoAddress(loc, i, Get(df, df.rows[i], "Email", None)), df |-> df]
    ELSE TryRow(loc, df, opts, i, o)

\* line 342: the row after i, and where the script goes when there is none
Advance(loc, total) ==
    IF loc.pc # "loop" THEN loc
    ELSE IF loc.idx < total THEN [loc EXCEPT !.idx = @ + 1]
    ELSE [loc EXCEPT !.pc = "finish"]

(***************************************************************************)
(* The script and the user.                                                *)
(***************************************************************************)
Init ==
    /\ ss = [s \in Sessions |-> EmptySessionState]
    /\ script = [s \in Sessions |-> NoScript("rerun")]
    /\ uploaded = [s \in Sessions |-> NoUpload]
    /\ hist = [s \in Sessions |-> [runs |-> 0, inv |-> 0, interrupts |-> 0, terminal |-> {}]]
    /\ tmp = {}
    /\ clock = 1

\* lines 175-306 and 467-489, not sending: the script shows the upload form
\* (and the completion view when done) and ends, waiting for the user
ShowUI(s) ==
    /\ script[s].pc = "rerun"
    /\ ~InitSessionState(ss[s]).sending
    /\ ss' = [ss EXCEPT ![s] = InitSessionState(@)]
    /\ script' = [script EXCEPT ![s] = NoScript("idle")]
    /\ UNCHANGED <<uploaded, hist, tmp, clock>>

\* lines 202-208: the user puts a file in the empty uploader
Upload(s, t) ==
    /\ script[s].pc = "idle"
    /\ ~uploaded[s].present
    /\ uploaded' = [uploaded EXCEPT ![s] = [present |-> TRUE, table |-> t]]
    /\ hist' = [hist EXCEPT ![s].terminal = {}]
    /\ UNCHANGED <<ss, script, tmp, clock>>

\* lines 296-306: "Send Emails / Save Drafts"
PressSend(s, tpl, mode) ==
    /\ script[s].pc = "idle"
    /\ uploaded[s].present
    /\ hist[s].runs < MaxRuns
    /\ ss' = [ss EXCEPT ![s] =
                [@ EXCEPT !.keys = @ \cup {"df", "opts"},
                          !.sending = TRUE,
                          !.df = uploaded[s].table,
                          !.opts = MkOpts(tpl, mode),
                          !.send_progress = [total |-> Len(uploaded[s].table.rows), sent |-> 0]]]
    /\ script' = [script EXCEPT ![s] = NoScript("rerun")]
    /\ hist' = [hist EXCEPT ![s].runs = @ + 1]
    /\ UNCHANGED <<uploaded, tmp, clock>>

\* lines 313-318: st.session_state.get with its defaults
StashedDf(st) == IF "df" \in st.keys THEN st.df ELSE NoTable
StashedOpts(st) == IF "opts" \in st.keys THEN st.opts ELSE DefaultOpts

\* lines 311-340, sending: the stash is loaded, the label looked up, the
\* counters reset and the tracking columns created
EnterSending(s, lbl) ==
    LET st == InitSessionState(ss[s])
        df == EnsureColumns(StashedDf(st))
        total == Len(df.rows)
    IN  /\ script[s].pc = "rerun"
        /\ st.sending
        /\ ss' = [ss EXCEPT ![s] = [st EXCEPT !.df = IF "df" \in st.keys THEN df ELSE @]]
        /\ script' = [script EXCEPT ![s] =
                        [NoScript(IF total = 0 THEN "finish" ELSE "loop") EXCEPT
                           !.idx = IF total = 0 THEN 0 ELSE 1,
                           !.label_id = IF StashedOpts(st).send_mode = ModeNew THEN lbl ELSE <<>>,
                           !.outcome = [i \in 1..total |-> "Pending"]]]
        /\ hist' = [hist EXCEPT ![s].inv = @ + 1]
        /\ UNCHANGED <<uploaded, tmp, clock>>

\* lines 342-428: one iteration of the loop
ProcessRow(s, o) ==
    LET loc == script[s]
        r == RowStep(loc, ss[s].df, StashedOpts(ss[s]), loc.idx, o)
    IN  /\ loc.pc = "loop"
        /\ script' = [script EXCEPT ![s] = Advance(r.loc, Len(ss[s].df.rows))]
        /\ ss' = [ss EXCEPT ![s].df = r.df,
                            ![s].send_progress.sent =
                                IF r.loc.sent_count # loc.sent_count THEN r.loc.sent_count ELSE @]
        /\ UNCHANGED <<uploaded, hist, tmp, clock>>

\* lines 431-449: the updated table is written to /tmp and mailed to the
\* user (send_email_backup, a messages().send call with no row); when
\* df.to_csv fails nothing after it in the try block runs
Finalize(s, fin) ==
    /\ script[s].pc = "finish"
    /\ clock' = clock + 1
    /\ IF fin = "nocsv"
       THEN UNCHANGED <<ss, tmp>> /\ script' = [script EXCEPT ![s].pc = "exit"]
       ELSE /\ tmp' = tmp \cup {[name |-> clock, by |-> s, inv |-> hist[s].inv,
                                 rows_done |-> RowsDone(script[s])]}
            /\ ss' = [ss EXCEPT ![s].last_saved_csv = clock,
                                ![s].keys = @ \cup {"last_saved_csv"}]
            /\ script' = [script EXCEPT
                            ![s].pc = "exit",
                            ![s].trace = Append(@, Event("send", 0, NoBody, "ok"))]
    /\ UNCHANGED <<uploaded, hist>>

\* lines 451-462: the run is marked done and its summary stored
Exit(s) ==
    /\ script[s].pc = "exit"
    /\ ss' = [ss EXCEPT ![s] =
                [@ EXCEPT !.keys = @ \cup {"summary"},
                          !.sending = FALSE,
                          !.done = TRUE,
                          !.summary = [sent_count |-> script[s].sent_count,
                                       skipped |-> script[s].skipped,
                                       errors |-> script[s].errors,
                                       file_path |-> IF "last_saved_csv" \in ss[s].keys
                                                     THEN ss[s].last_saved_csv ELSE 0]]]
    /\ script' = [script EXCEPT ![s] = NoScript("rerun")]
    /\ hist' = [hist EXCEPT ![s].terminal = @ \cup TerminalRows(script[s])]
    /\ UNCHANGED <<uploaded, tmp, clock>>

\* The script run is stopped in the middle of the loop: Streamlit's stop and
\* rerun requests are raised from st.* calls as BaseException, which the
\* "except Exception" handlers of lines 348 and 426 do not catch.  Nothing
\* after the point of interruption runs.
Interrupt(s) ==
    /\ script[s].pc = "loop"
    /\ hist[s].interrupts < MaxInterrupts
    /\ script' = [script EXCEPT ![s] = NoScript("stopped")]
    /\ hist' = [hist EXCEPT ![s].interrupts = @ + 1,
                            ![s].terminal = @ \cup TerminalRows(script[s])]
    /\ UNCHANGED <<ss, uploaded, tmp, clock>>

\* The next script run of a stopped session, from the top
Rerun(s) ==
    /\ script[s].pc = "stopped"
    /\ script' = [script EXCEPT ![s] = NoScript("rerun")]
    /\ UNCHANGED <<ss, uploaded, hist, tmp, clock>>

\* lines 492-501: "New Run / Reset"
Reset(s) ==
    /\ script[s].pc = "idle"
    /\ ss[s].done
    /\ ss' = [ss EXCEPT ![s] =
                [@ EXCEPT !.keys = @ \ RunKeys,
                          !.df = NoTable, !.opts = NoOpts, !.summary = NoSummary,
                          !.last_saved_csv = 0,
                          !.sending = FALSE,
                          !.done = FALSE,
                          !.send_progress = [total |-> 0, sent |-> 0]]]
    /\ script' = [script EXCEPT ![s] = NoScript("rerun")]
    /\ hist' = [hist EXCEPT ![s].terminal = {}]
    /\ UNCHANGED <<uploaded, tmp, clock>>

\* One browser session
Next ==
    \/ ShowUI("s1")
    \/ \E t \in Tables : Upload("s1", t)
    \/ \E c \in RunConfigs : PressSend("s1", c[1], c[2])
    \/ \E lbl \in {LabelId, <<>>} : EnterSending("s1", lbl)
    \/ \E o \in Oracles : ProcessRow("s1", o)
    \/ \E fin \in {"ok", "nocsv"} : Finalize("s1", fin)
    \/ Exit("s1")
    \/ Interrupt("s1")
    \/ Rerun("s1")
    \/ Reset("s1")

Spec == Init /\ [][Next]_vars

\* Two browser sessions of the same deployment, each with a one-row table
\* of a fresh recipient, sending new emails.
TablesTwo == {t \in Tables : Len(t.rows) = 1 /\ t.cols = BaseCols}
OraclesTwo == {o \in Oracles : o.modify = "ok" /\ o.fetch[3] = "hdr"}

NextTwo ==
    \E s \in Sessions :
        \/ ShowUI(s)
        \/ \E t \in TablesTwo : Upload(s, t)
        \/ PressSend(s, {"Name"}, ModeNew)
        \/ EnterSending(s, LabelId)
        \/ \E o \in OraclesTwo : ProcessRow(s, o)
        \/ Finalize(s, "ok")
        \/ Exit(s)
        \/ Interrupt(s)
        \/ Rerun(s)
        \/ Reset(s)

SpecTwo == Init /\ [][NextTwo]_vars

(***************************************************************************)
(* Properties.                                                             *)
(***************************************************************************)
Running(s) == script[s].pc \in {"loop", "finish", "exit"}

\* the provider send and create-draft calls made for recipient rows
RowCalls(s) ==
    {k \in DOMAIN script[s].trace :
        script[s].trace[k].op \in {"send", "draft"} /\ script[s].trace[k].row >= 1}

CallsFor(s, i) == {k \in RowCalls(s) : script[s].trace[k].row = i}

\* the rows the loop is done with
Processed(s) == {i \in DOMAIN script[s].outcome : script[s].outcome[i] # "Pending"}

\* The text holds something of the shape x@y.z: a statement of what
\* EMAIL_REGEX accepts that does not go through the matcher.
HasAddress(text) ==
    \E p \in 2..Len(text), q \in 1..(Len(text) - 1) :
        /\ text[p] = "@" /\ text[p - 1] \in AddrChars
        /\ q >= p + 2 /\ text[q] = "." /\ text[q + 1] \in WordChars
        /\ \A m \in (p + 1)..q : text[m] \in AddrChars

Malformed(s, i) == ~HasAddress(PyStr(ss[s].df.rows[i].Email))

\* C1: once a row has reached Sent, Draft or Skipped in an invocation, no
\* later invocation over the same table (a re-trigger without reset, a
\* restart after an interruption) processes it again or makes a provider
\* send or create-draft call for it.
C1_AtMostOncePerRecipient ==
    \A s \in Sessions : \A i \in hist[s].terminal :
        /\ i \notin Processed(s)
        /\ CallsFor(s, i) = {}

\* C2: at most one invocation is in the sending loop at any time.
C2_RunMutualExclusion ==
    Cardinality({s \in Sessions : script[s].pc = "loop"}) <= 1

\* C3: after every row's outcome the progress is on disk: whenever an
\* invocation has decided k rows, a file it wrote holds at least k - 1 of
\* them, so a crash loses at most one row's outcome.
C3_PerRowCheckpoint ==
    \A s \in Sessions :
        (script[s].pc \in {"loop", "finish"} /\ Cardinality(Processed(s)) >= 2) =>
            \E f \in tmp : /\ f.by = s
                           /\ f.inv = hist[s].inv
                           /\ f.rows_done >= Cardinality(Processed(s)) - 1

TemplateUnfillable(s) == "Company" \in ss[s].opts.subject_template \cup ss[s].opts.body_template

\* C6: when rendering fails for a row, no provider call is made for it, the
\* row is in the errors list with the rendering error, and the loop goes on.
C6_RenderFailureIsolated ==
    \A s \in Sessions :
        LET loc == script[s]
        IN  TemplateUnfillable(s) =>
                \A i \in Processed(s) :
                    ~Malformed(s, i) =>
                        /\ CallsFor(s, i) = {}
                        /\ loc.outcome[i] = "Error"
                        /\ \E m \in DOMAIN loc.errors :
                             loc.errors[m] = [addr |-> to_addr_of(ss[s].df, ss[s].df.rows[i]),
                                              error |-> "KeyError"]
                        /\ Running(s)
                        /\ loc.pc = "loop" => loc.idx > i
                        /\ loc.pc # "loop" => Processed(s) = DOMAIN loc.outcome

\* C6 witness: rendering failed for both rows of a table and the loop ended
C6_Witness ==
    /\ script["s1"].pc = "finish"
    /\ TemplateUnfillable("s1")
    /\ Len(script["s1"].errors) = 2
    /\ script["s1"].trace = <<>>

\* C7: with a batch limit of 1 an invocation processes at most one row and
\* leaves the others Pending.
C7_BatchBoundary ==
    \A s \in Sessions : Cardinality(Processed(s)) <= 1

\* the planner's rule: Sent, Draft and Skipped rows are left out, an
\* InProgress row is left out unless it is older than 24 hours
Planned(row) ==
    CASE row.Status.st \in Terminal -> FALSE
      [] row.Status.st = "InProgress" -> row.Status.age > 24
      [] OTHER -> TRUE

\* C8: an invocation processes exactly the rows the planner's rule admits:
\* none that is not planned, and all that are when the loop has ended.
C8_InFlightAndStaleRows ==
    \A s \in Sessions :
        /\ \A i \in Processed(s) : Planned(ss[s].df.rows[i])
        /\ script[s].pc = "finish" =>
             \A i \in DOMAIN script[s].outcome : Planned(ss[s].df.rows[i]) => i \in Processed(s)

\* C9: in Follow-up mode every message sent for a row is linked: it carries
\* a thread id and reply headers.
C9_FollowUpIsLinked ==
    \A s \in Sessions :
        (Running(s) /\ ss[s].opts.send_mode = ModeFollowUp) =>
            \A k \in RowCalls(s) :
                script[s].trace[k].threadId # <<>> /\ script[s].trace[k].reply # <<>>

\* C10: when no script run of a session is in the sending block (it waits
\* for the user, or its run was stopped), the sending flag is false.
C10_RunMarkerReleased ==
    \A s \in Sessions : script[s].pc \in {"idle", "stopped"} => ~ss[s].sending
\* the mode of the run of session s
Mode(s) == StashedOpts(ss[s]).send_mode

\* the rows whose send or create-draft call returned
Delivered(s) ==
    {i \in DOMAIN script[s].outcome :
        \E k \in CallsFor(s, i) : script[s].trace[k].result = "ok"}

\* a label operation failed for row i: the label could not be listed or
\* created for the run, or could not be applied to the row's message
LabelFailed(s, i) ==
    /\ Mode(s) = ModeNew
    /\ \/ script[s].label_id = <<>>
       \/ \E k \in DOMAIN script[s].trace :
            LET e == script[s].trace[k]
            IN  e.op = "modify" /\ e.row = i /\ e.result = "fail"

\* C11: when a label operation fails for a row whose message was sent, the
\* row is Sent, its ThreadId and RfcMessageId are those of the sent message,
\* the errors list holds only the rows that ended in Error, and the loop goes
\* on to the rows after it.
C11_LabelFailureNonFatal ==
    \A s \in Sessions :
        LET loc == script[s]
        IN  \A i \in Delivered(s) :
                LabelFailed(s, i) =>
                    /\ loc.outcome[i] = "Sent"
                    /\ ss[s].df.rows[i].ThreadId = Str(SendResponse(i, NoBody).threadId)
                    /\ ss[s].df.rows[i].RfcMessageId
                           \in {Str(MessageIdHeader(i)), Str(SendResponse(i, NoBody).id)}
                    /\ Len(loc.errors) = Cardinality({j \in DOMAIN loc.outcome : loc.outcome[j] = "Error"})
                    /\ Running(s)
                    /\ loc.pc = "loop" => loc.idx > i
                    /\ loc.pc # "loop" => Processed(s) = DOMAIN loc.outcome

\* C11 witness: the label could not be applied to the message of row 1, and
\* row 2 was sent after it
C11_Witness ==
    /\ script["s1"].pc = "finish"
    /\ Len(script["s1"].outcome) = 2
    /\ \E k \in DOMAIN script["s1"].trace :
         LET e == script["s1"].trace[k]
         IN  e.op = "modify" /\ e.row = 1 /\ e.result = "fail"
    /\ script["s1"].outcome[1] = "Sent"
    /\ script["s1"].outcome[2] = "Sent"

\* C12: after New Run / Reset the session is not sending and not done, holds
\* no stashed table, options, summary or saved-file reference, and the next
\* script run starts from the session state of a fresh session.
C12_ResetClearsEverything ==
    [][\A s \in Sessions :
          Reset(s) =>
              /\ ~ss'[s].sending
              /\ ~ss'[s].done
              /\ ss'[s].keys \cap {"df", "opts", "summary", "last_saved_csv"} = {}
              /\ InitSessionState(ss'[s]) = InitSessionState(EmptySessionState)
              /\ script'[s] = NoScript("rerun")]_vars

\* C12 witness: a run finished and wrote its file, and Reset was pressed
C12_Witness ==
    /\ script["s1"].pc = "rerun"
    /\ hist["s1"].runs >= 1
    /\ ~ss["s1"].sending
    /\ ~ss["s1"].done
    /\ \E f \in tmp : f.by = "s1"


\* C13: when the message of a row is sent, at most FetchAttempts
\* messages().get calls are made for it; they stop at the first one that
\* answers with the Message-ID header, which becomes the row's RfcMessageId;
\* when none does, RfcMessageId is the id of the send response.  Either way
\* the row is Sent, counted as sent, and nothing is added to the errors.
C13_BoundedIdResolution ==
    [][\A s \in Sessions : \A o \in Oracles :
          LET i == script[s].idx
              found == {a \in 1..FetchAttempts : o.fetch[a] = "hdr"}
          IN  (ProcessRow(s, o) /\ script'[s].outcome[i] = "Sent") =>
                  /\ script'[s].gets <= FetchAttempts
                  /\ found # {} =>
                        /\ script'[s].gets = Min(found)
                        /\ ss'[s].df.rows[i].RfcMessageId = Str(MessageIdHeader(i))
                  /\ found = {} =>
                        /\ script'[s].gets = FetchAttempts
                        /\ ss'[s].df.rows[i].RfcMessageId = Str(SendResponse(i, NoBody).id)
                  /\ script'[s].errors = script[s].errors
                  /\ script'[s].sent_count = script[s].sent_count + 1]_vars

\* C13 witness: no get call answered with the header for row 1, six were
\* made, and the row is Sent with the message id as its RfcMessageId
C13_Witness ==
    /\ script["s1"].pc \in {"loop", "finish"}
    /\ Len(script["s1"].outcome) >= 1
    /\ script["s1"].outcome[1] = "Sent"
    /\ script["s1"].gets = FetchAttempts
    /\ ss["s1"].df.rows[1].RfcMessageId = Str(SendResponse(1, NoBody).id)
    /\ script["s1"].errors = <<>>
    /\ script["s1"].sent_count = 1


\* C14: within an invocation the calls and sleeps for rows appear in table
\* order, at most one send or create-draft call is made per row, a call for
\* row i is there only when every row before i has its outcome, and while
\* the loop runs exactly the rows before the current one have theirs.
C14_SequentialInOrder ==
    \A s \in Sessions :
        LET loc == script[s]
        IN  /\ \A k, l \in DOMAIN loc.trace :
                 (k < l /\ loc.trace[k].row >= 1 /\ loc.trace[l].row >= 1) =>
                     loc.trace[k].row <= loc.trace[l].row
            /\ \A i \in DOMAIN loc.outcome : Cardinality(CallsFor(s, i)) <= 1
            /\ \A k \in RowCalls(s) : \A j \in 1..(loc.trace[k].row - 1) : j \in Processed(s)
            /\ loc.pc = "loop" => Processed(s) = 1..(loc.idx - 1)
            /\ loc.pc \in {"finish", "exit"} => Processed(s) = DOMAIN loc.outcome

\* C14 witness: a call was made for row 1 and then one for row 2
C14_Witness ==
    /\ script["s1"].pc = "finish"
    /\ \E k, l \in RowCalls("s1") :
         k < l /\ script["s1"].trace[k].row = 1 /\ script["s1"].trace[l].row = 2


\* the pacing sleeps of the invocation
Sleeps(s) == {k \in DOMAIN script[s].trace : script[s].trace[k].op = "sleep"}

\* C15: no pacing sleep is taken after the last row of the table.
C15_NoPacingAfterLastRow ==
    \A s \in Sessions :
        \A k \in Sleeps(s) : script[s].trace[k].row < Len(script[s].outcome)


\* C16 as stated: in Draft mode no pacing sleep is taken and every provider
\* call of the invocation is a create-draft call.
C16_DraftOnlyCreateDraftCalls ==
    \A s \in Sessions :
        Mode(s) = ModeDraft =>
            \A k \in DOMAIN script[s].trace : script[s].trace[k].op = "draft"

\* C16, amended: in Draft mode no pacing sleep is taken and every provider
\* call made for a recipient row is a create-draft call; the one send call
\* of the invocation is the backup mail of the finalization, made for no
\* row after the table was written.
C16_DraftsExemptFromPacing ==
    \A s \in Sessions :
        LET loc == script[s]
        IN  Mode(s) = ModeDraft =>
                /\ Sleeps(s) = {}
                /\ \A k \in DOMAIN loc.trace :
                     \/ loc.trace[k].op = "draft" /\ loc.trace[k].row >= 1
                     \/ /\ loc.trace[k] = Event("send", 0, NoBody, "ok")
                        /\ k = Len(loc.trace)
                        /\ loc.pc = "exit"

\* C16 witness: a Draft run made a draft for each of two rows and mailed
\* the backup
C16_Witness ==
    /\ Mode("s1") = ModeDraft
    /\ script["s1"].pc = "exit"
    /\ script["s1"].sent_count = 2
    /\ Cardinality(RowCalls("s1")) = 2
    /\ Len(script["s1"].trace) = 3


\* the cell holds text that is not only blanks
NonBlank(cell) == cell.k = "str" /\ \E j \in DOMAIN cell.v : cell.v[j] # " "

\* C17: a send call made in Follow-up mode for a row whose ThreadId and
\* RfcMessageId are both non-blank carries that ThreadId as its thread and
\* that RfcMessageId as its In-Reply-To and References; a send call made in
\* New mode carries no thread and no reply headers.
C17_LinkedFollowUp ==
    [][\A s \in Sessions :
          script[s].pc = "loop" /\ script'[s].pc \in {"loop", "finish"} =>
              LET i == script[s].idx
                  row == ss[s].df.rows[i]
                  old == Len(script[s].trace)
              IN  \A k \in (old + 1)..Len(script'[s].trace) :
                      LET e == script'[s].trace[k]
                      IN  e.op = "send" =>
                              /\ e.row = i
                              /\ (Mode(s) = ModeFollowUp /\ NonBlank(row.ThreadId)
                                  /\ NonBlank(row.RfcMessageId)) =>
                                    /\ e.threadId = Strip(row.ThreadId.v)
                                    /\ e.reply = Strip(row.RfcMessageId.v)
                              /\ Mode(s) = ModeNew =>
                                    e.threadId = <<>> /\ e.reply = <<>>]_vars

\* C17 witness: a follow-up was sent into the thread of row 2 of a table
\* whose row 1 has no linkage
C17_Witness ==
    /\ Mode("s1") = ModeFollowUp
    /\ script["s1"].pc = "finish"
    /\ \E k, l \in RowCalls("s1") :
         /\ script["s1"].trace[k] = Event("send", 1, NoBody, "ok")
         /\ script["s1"].trace[l] =
                Event("send", 2, [threadId |-> S_t1, reply |-> S_r1], "ok")


\* C18: in a non-draft mode a pacing sleep lies between any two send calls
\* for rows of one invocation, whether the earlier call failed or not.
C18_PacingBetweenCalls ==
    \A s \in Sessions :
        Mode(s) # ModeDraft =>
            \A k, l \in RowCalls(s) :
                k < l => \E j \in Sleeps(s) : k < j /\ j < l

\* the number of rows of the invocation with one of the outcomes
Count(s, outcomes) ==
    Cardinality({i \in DOMAIN script[s].outcome : script[s].outcome[i] \in outcomes})

\* C19: the rows counted as sent are those whose send or create-draft call
\* returned; when the loop has ended, sent_count, the skipped list and the
\* errors list count the rows that were sent or drafted, skipped and failed,
\* every row is in one of them, and the stored summary adds up to the
\* number of rows of the table.
C19_SummaryAccounting ==
    \A s \in Sessions :
        LET loc == script[s]
            sm == ss[s].summary
        IN  /\ loc.sent_count = Cardinality(Delivered(s))
            /\ loc.pc \in {"finish", "exit"} =>
                  /\ loc.sent_count = Count(s, {"Sent", "Draft"})
                  /\ Len(loc.skipped) = Count(s, {"Skipped"})
                  /\ Len(loc.errors) = Count(s, {"Error"})
                  /\ loc.sent_count + Len(loc.skipped) + Len(loc.errors) = Len(ss[s].df.rows)
            /\ (ss[s].done /\ ~ss[s].sending /\ "summary" \in ss[s].keys) =>
                  sm.sent_count + Len(sm.skipped) + Len(sm.errors) = Len(ss[s].df.rows)

\* C19 witness: the summary of a finished run over two rows, one sent and
\* one skipped
C19_Witness ==
    /\ ss["s1"].done
    /\ ~ss["s1"].sending
    /\ "summary" \in ss["s1"].keys
    /\ Len(ss["s1"].df.rows) = 2
    /\ ss["s1"].summary.sent_count = 1
    /\ Len(ss["s1"].summary.skipped) = 1

\* C20: the file_path of a stored summary is absent or names a file that
\* the invocation that stored the summary wrote.
C20_SummaryArtifactOfThisRun ==
    \A s \in Sessions :
        (ss[s].done /\ ~ss[s].sending /\ "summary" \in ss[s].keys) =>
            \/ ss[s].summary.file_path = 0
            \/ \E f \in tmp : /\ f.name = ss[s].summary.file_path
                               /\ f.by = s
                               /\ f.inv = hist[s].inv

=============================================================================
